---- MODULE Spec2Model ----
(***************************************************************************)
(* A model of the IDX stock screener (src/app.py): the universe resolver,  *)
(* the screening engine, the batch scanner, the RSI indicator and the      *)
(* Streamlit script with its caches and session state.                     *)
(*                                                                         *)
(* Conventions of the model                                                *)
(*  - a Python str is a sequence of one-character strings;                 *)
(*  - a float that the code only compares is an exact rational             *)
(*    [num, den] (den > 0), or one of the IEEE values "inf", "-inf",       *)
(*    "nan" that numpy produces on a division by zero;                     *)
(*  - money (close x volume) is counted in millions of rupiah and volume   *)
(*    in millions of shares, so that the products fit the integers;        *)
(*  - None is the value None, a raised exception the value Raised.         *)
(***************************************************************************)
EXTENDS Integers, Sequences, FiniteSets, TLC

VARIABLES
    \* ---- screening engine, one evaluation (process_single_stock)
    fetched,        \* what get_stock_data does for the ticker: a history, None or a raise
    crit,           \* the scan criteria of the sidebar
    res,            \* the outcome of process_single_stock, or Pending
    rsi,            \* the value of calculate_rsi on the history, or Pending
    \* ---- the script run and the clock
    pc,             \* where the script is: "idle" between runs
    now,            \* the clock, in seconds
    rerun,          \* whether st.rerun() started the current run
    \* ---- the sidebar widgets as the script reads them
    source_mode, manual_text, manual_file,
    clear_clicked, scan_clicked, auto_refresh,
    \* ---- the live sources and the caches of the two fetch functions
    yahoo_net,      \* the responses to the last Yahoo sweep issued
    idx_net,        \* the response to the last IDX request issued
    cache_yahoo, cache_idx,
    called,         \* the fetch functions the last resolve_universe called
    ran,            \* those of them whose body ran: a network sweep
    \* ---- the module globals set by resolve_universe (line 354)
    SYMBOLS,        \* the universe, a list of tickers
    NAME_MAP,       \* ticker -> display name
    DEBUG_MSGS,     \* the diagnostics
    script_error,   \* an exception left the script
    \* ---- st.session_state
    session,        \* [has_scan, last_scan, has_results, results, errors]
    \* ---- the environment of a scan
    market,         \* ticker -> what get_stock_data does for it
    \* ---- batch scanner (scan_stocks_with_progress)
    scan_pc,        \* "idle", "call", "loop", "returned"
    idx,            \* tickers processed so far
    filtered,       \* the rows collected
    failed,         \* the failures collected
    evaluated,      \* the tickers handed to process_single_stock, in call order
    slept,          \* pauses of one second taken
    progress,       \* the last value given to the progress bar, <<done, of>>
    scan_ret        \* the value returned: [results, errors], or Pending

screenVars == <<fetched, res, rsi>>
runVars == <<pc, rerun>>
uiVars == <<source_mode, manual_text, manual_file, clear_clicked, scan_clicked, auto_refresh>>
netVars == <<yahoo_net, idx_net>>
cacheVars == <<cache_yahoo, cache_idx, called, ran>>
universeVars == <<SYMBOLS, NAME_MAP, DEBUG_MSGS, script_error>>
scanVars == <<scan_pc, idx, filtered, failed, evaluated, slept, progress, scan_ret>>
vars == <<screenVars, crit, runVars, now, uiVars, netVars, cacheVars, universeVars, session,
          market, scanVars>>

None == [kind |-> "None"]
Raised == [kind |-> "raised"]
Pending == [kind |-> "pending"]

(***************************************************************************)
(* Bounds of the model                                                     *)
(***************************************************************************)
\* the longest history drawn for one evaluation of the screening engine
MaxBars == 4

RECURSIVE SeqsUpTo(_, _)
\* every sequence over S of length at most n
SeqsUpTo(S, n) ==
    IF n = 0 THEN {<<>>}
    ELSE LET shorter == SeqsUpTo(S, n - 1)
         IN  shorter \cup {Append(s, x) : s \in {t \in shorter : Len(t) = n - 1}, x \in S}

Range(s) == {s[i] : i \in 1..Len(s)}

\* tail(k) of a pandas frame or of a list: its last k elements (all if shorter)
LastN(s, k) == IF Len(s) <= k THEN s ELSE SubSeq(s, Len(s) - k + 1, Len(s))

(***************************************************************************)
(* Floats that are only compared                                           *)
(***************************************************************************)
Rat(n, d) == [kind |-> "num", num |-> n, den |-> d]

\* numpy's a / b for float64 a, b >= 0 or a of any sign: no exception on b = 0
FloatDiv(a, b) ==
    IF b # 0 THEN Rat(a, b)
    ELSE IF a > 0 THEN [kind |-> "inf"]
    ELSE IF a < 0 THEN [kind |-> "-inf"]
    ELSE [kind |-> "nan"]

\* x * 100
FloatTimes100(x) == IF x.kind = "num" THEN Rat(x.num * 100, x.den) ELSE x

\* x >= y for a float x and a finite y: every comparison with nan is False
FloatGE(x, y) ==
    CASE x.kind = "num" -> x.num * y.den >= y.num * x.den
      [] x.kind = "inf" -> TRUE
      [] OTHER -> FALSE

(***************************************************************************)
(* Indicators and rules of the screening engine                            *)
(***************************************************************************)
\* a history: None, or a frame of bars [Close, Volume], oldest first
Frame(bars) == [kind |-> "frame", bars |-> bars]

IsNone(x) == x.kind = "None"

\* len(hist)
Bars(hist) == Len(hist.bars)

Closes(hist) == [i \in 1..Bars(hist) |-> hist.bars[i].Close]

\* a strict comparison in place of >=
MeetsThresholdStrict(ch, threshold) ==
    CASE ch.kind = "num" -> ch.num * threshold.den > threshold.num * ch.den
      [] ch.kind = "inf" -> TRUE
      [] OTHER -> FALSE

\* the comparison of one change against the threshold, line 203
MeetsThreshold(ch, threshold) == FloatGE(ch, threshold)

\* check_consecutive_day_increase: <<ok, changes, prices>>
check_consecutive_day_increase(hist, threshold, num_days) ==
    IF IsNone(hist) \/ Bars(hist) < num_days + 1 THEN <<FALSE, <<>>, <<>>>>
    ELSE LET recent == Frame(LastN(hist.bars, num_days + 1))
             prices == Closes(recent)
             changes == [i \in 1..(Len(prices) - 1) |->
                            FloatTimes100(FloatDiv(prices[i + 1] - prices[i], prices[i]))]
         IN  IF \A i \in 1..Len(changes) : MeetsThreshold(changes[i], threshold)
             THEN <<TRUE, changes, prices>>
             ELSE <<FALSE, changes, prices>>

\* calculate_trading_value: last close x last volume
calculate_trading_value(hist) ==
    IF IsNone(hist) \/ Bars(hist) < 1 THEN 0
    ELSE LET r == LastN(hist.bars, 1) IN r[1].Close * r[1].Volume
(***************************************************************************)
(* Python str operations, on sequences of characters                       *)
(***************************************************************************)
DOT_JK == <<".", "J", "K">>

\* a str that may be None is <<>> when it is None: both are falsy
Truthy(x) == x # <<>>

\* a or b
Or(a, b) == IF Truthy(a) THEN a ELSE b

StartsWith(s, pre) == Len(s) >= Len(pre) /\ SubSeq(s, 1, Len(pre)) = pre

EndsWith(s, suf) == Len(s) >= Len(suf) /\ SubSeq(s, Len(s) - Len(suf) + 1, Len(s)) = suf

RECURSIVE Replace(_, _, _)
\* s.replace(old, new), old not empty: left to right, occurrences not overlapping
Replace(s, old, new) ==
    IF Len(s) < Len(old) THEN s
    ELSE IF StartsWith(s, old)
         THEN new \o Replace(SubSeq(s, Len(old) + 1, Len(s)), old, new)
         ELSE <<s[1]>> \o Replace(Tail(s), old, new)

\* sub in s
Contains(s, sub) == \E i \in 1..(Len(s) - Len(sub) + 1) : SubSeq(s, i, i + Len(sub) - 1) = sub

(***************************************************************************)
(* Exact arithmetic on naturals of any size: a number is the sequence of   *)
(* its base-10000 digits, lowest first, <<>> being zero.  The smoothed     *)
(* averages of RSI(14) have denominators 14^k, beyond the integers.        *)
(***************************************************************************)
RECURSIVE BigCarry(_, _)
\* the digits of c followed by nothing: a carry as a number
BigCarry(c, base) == IF c = 0 THEN <<>> ELSE <<c % base>> \o BigCarry(c \div base, base)

BigOfInt(n) == BigCarry(n, 10000)

RECURSIVE BigAddC(_, _, _)
BigAddC(a, b, c) ==
    IF a = <<>> /\ b = <<>> THEN BigCarry(c, 10000)
    ELSE LET x == IF a = <<>> THEN 0 ELSE a[1]
             y == IF b = <<>> THEN 0 ELSE b[1]
             t == x + y + c
         IN  <<t % 10000>> \o BigAddC(IF a = <<>> THEN a ELSE Tail(a),
                                      IF b = <<>> THEN b ELSE Tail(b), t \div 10000)

BigAdd(a, b) == BigAddC(a, b, 0)

RECURSIVE BigMulC(_, _, _)
BigMulC(a, k, c) ==
    IF a = <<>> THEN BigCarry(c, 10000)
    ELSE LET t == a[1] * k + c
         IN  <<t % 10000>> \o BigMulC(Tail(a), k, t \div 10000)

\* a * k for a small k (k < 10000); zero stays <<>>
BigMul(a, k) == IF k = 0 THEN <<>> ELSE BigMulC(a, k, 0)

(***************************************************************************)
(* calculate_rsi                                                           *)
(***************************************************************************)
\* pd.Series(prices).diff(): the first element is NaN
Diff(prices) == [i \in 1..Len(prices) |-> IF i = 1 THEN [kind |-> "nan"]
                                          ELSE Rat(prices[i] - prices[i - 1], 1)]

\* deltas.where(deltas > 0, 0): NaN > 0 is False
Gains(deltas) == [i \in 1..Len(deltas) |->
    IF deltas[i].kind = "num" /\ deltas[i].num > 0 THEN deltas[i].num ELSE 0]

\* -deltas.where(deltas < 0, 0)
Losses(deltas) == [i \in 1..Len(deltas) |->
    IF deltas[i].kind = "num" /\ deltas[i].num < 0 THEN -deltas[i].num ELSE 0]

RECURSIVE EwmScaled(_, _, _)
\* xs.ewm(alpha=1/period, adjust=False).mean() at index t (from 1), times
\* period^(t-1): y[1] = x[1], y[t] = (1 - 1/period) y[t-1] + x[t] / period.
\* The value is <<the scaled average, period^(t-1)>>.
EwmScaled(xs, period, t) ==
    IF t = 1 THEN <<BigOfInt(xs[1]), BigOfInt(1)>>
    ELSE LET prev == EwmScaled(xs, period, t - 1)
         IN  <<BigAdd(BigMul(prev[1], period - 1), BigMul(prev[2], xs[t])),
               BigMul(prev[2], period)>>

\* the last smoothed average, scaled by period^(len-1): the scale is the same
\* for the gains and the losses of one series
EwmLast(xs, period) == EwmScaled(xs, period, Len(xs))[1]

\* the neutral value whenever the smoothed loss is zero
RsiNoLossNeutral(lg) == Rat(50, 1)

\* the value returned at line 223 when the smoothed loss is zero
RsiNoLoss(lg) == IF lg # <<>> THEN Rat(100, 1) ELSE Rat(50, 1)

\* calculate_rsi(hist, period): None, or the RSI as a float.  With lg, ll > 0
\* the value 100 - 100 / (1 + lg / ll) is 100 lg / (lg + ll), strictly between
\* 0 and 100: kind "big" carries its exact numerator and denominator
calculate_rsi(hist, period) ==
    IF IsNone(hist) \/ Bars(hist) < period + 1 THEN None
    ELSE LET prices == Closes(hist)
             deltas == Diff(prices)
             lg == EwmLast(Gains(deltas), period)
             ll == EwmLast(Losses(deltas), period)
         IN  IF ll = <<>> THEN RsiNoLoss(lg)
             ELSE IF lg = <<>> THEN Rat(0, 1)
             ELSE [kind |-> "big", num |-> BigMul(lg, 100), den |-> BigAdd(lg, ll)]

RSI_PERIOD == 14
SMA_PERIOD == 20
VOLUME_TREND_PERIOD == 5

\* calculate_sma and calculate_ema are None exactly below `period` bars (closes
\* are never NaN here); their value plays no part below and is kept as "value"
calculate_sma(hist, period) ==
    IF IsNone(hist) \/ Bars(hist) < period THEN None ELSE [kind |-> "value"]

calculate_ema(hist, period) ==
    IF IsNone(hist) \/ Bars(hist) < period THEN None ELSE [kind |-> "value"]

RECURSIVE SumSeq(_)
SumSeq(s) == IF s = <<>> THEN 0 ELSE s[1] + SumSeq(Tail(s))

\* calculate_volume_trend: percent change of the mean volume, last `period`
\* bars against the `period` before
calculate_volume_trend(hist, period) ==
    IF IsNone(hist) \/ Bars(hist) < period * 2 THEN None
    ELSE LET volumes == [i \in 1..Bars(hist) |-> hist.bars[i].Volume]
             recent == SumSeq(LastN(volumes, period))
             previous == SumSeq(SubSeq(volumes, Len(volumes) - 2 * period + 1,
                                       Len(volumes) - period))
         IN  IF previous = 0 THEN None
             ELSE Rat((recent - previous) * 100, previous)

\* f"{x:.2f}" if x is not None else "N/A": the marker, or the value itself
Shown(x) == IF ~IsNone(x) THEN x ELSE [kind |-> "N/A"]

(***************************************************************************)
(* process_single_stock                                                    *)
(***************************************************************************)
\* name_map.get(key): None (<<>>) when the key is absent
Get(map, key) == IF key \in DOMAIN map THEN map[key] ELSE <<>>

\* the guard of line 283: the history is long enough for the rule
EnoughBars(hist, num_consecutive_days) ==
    ~IsNone(hist) /\ Bars(hist) >= num_consecutive_days + 1

\* the columns added at lines 299-307
IndicatorColumns(hist) ==
    [rsi |-> Shown(calculate_rsi(hist, RSI_PERIOD)),
     sma20 |-> Shown(calculate_sma(hist, SMA_PERIOD)),
     ema20 |-> Shown(calculate_ema(hist, SMA_PERIOD)),
     vtrend |-> Shown(calculate_volume_trend(hist, VOLUME_TREND_PERIOD))]

\* insufficient data reported as a failure
NoRowAsFailure(ticker) == [success |-> FALSE, error |-> "no data", ticker |-> ticker]

\* the return of line 309: success, no row
NoRow(ticker) == [success |-> TRUE, data |-> None]

\* the return of line 311: the exception caught, as a failure
Failure(ticker) == [success |-> FALSE, error |-> "exception", ticker |-> ticker]

\* `got` is what get_stock_data did: Raised, or [kind |-> "ok", hist, longName]
\* with hist None or a sequence of bars, and longName <<>> when info has none
process_single_stock(ticker, min_trading_value, price_threshold, num_consecutive_days, include_indicators, name_map, got) ==
    IF got.kind = "raised" THEN Failure(ticker)
    ELSE LET hist == got.hist
             chk == check_consecutive_day_increase(hist, price_threshold, num_consecutive_days)
             tv == calculate_trading_value(hist)
             code == Replace(ticker, DOT_JK, <<>>)
             name == Or(Or(Get(name_map, ticker), got.longName), code)
             row == [kind |-> "row", Kode |-> code, Nama |-> name,
                     Harga |-> chk[3][Len(chk[3])],
                     NilaiTransaksi |-> tv,
                     Kenaikan |-> chk[2],
                     Indikator |-> IF include_indicators THEN IndicatorColumns(hist) ELSE None]
         IN  IF EnoughBars(hist, num_consecutive_days) /\ chk[1] /\ tv >= min_trading_value
             THEN [success |-> TRUE, data |-> row]
             ELSE NoRow(ticker)

(***************************************************************************)
(* More of Python's str: case, white space, order                          *)
(***************************************************************************)
LOWER == <<"a","b","c","d","e","f","g","h","i","j","k","l","m",
           "n","o","p","q","r","s","t","u","v","w","x","y","z">>
UPPER == <<"A","B","C","D","E","F","G","H","I","J","K","L","M",
           "N","O","P","Q","R","S","T","U","V","W","X","Y","Z">>
DIGITS == <<"0", "1", "2", "3", "4", "5", "6", "7", "8", "9">>
\* the characters of the model in code-point order
CHARS == <<"\t", "\n", " ", ",", "-", ".">> \o DIGITS \o <<";">> \o UPPER \o <<"[", "]">> \o LOWER

WHITESPACE == {" ", "\t", "\n"}
LINE_BREAKS == {"\n"}

IndexIn(seq, c) == CHOOSE i \in 1..Len(seq) : seq[i] = c

UpperChar(c) == IF c \in Range(LOWER) THEN UPPER[IndexIn(LOWER, c)] ELSE c
LowerChar(c) == IF c \in Range(UPPER) THEN LOWER[IndexIn(UPPER, c)] ELSE c

\* s.upper(), s.lower()
Upper(s) == [i \in 1..Len(s) |-> UpperChar(s[i])]
Lower(s) == [i \in 1..Len(s) |-> LowerChar(s[i])]

RECURSIVE LStrip(_)
LStrip(s) == IF s # <<>> /\ s[1] \in WHITESPACE THEN LStrip(Tail(s)) ELSE s

RECURSIVE RStrip(_)
RStrip(s) == IF s # <<>> /\ s[Len(s)] \in WHITESPACE THEN RStrip(SubSeq(s, 1, Len(s) - 1)) ELSE s

\* s.strip()
Strip(s) == RStrip(LStrip(s))

RECURSIVE UpToWhitespace(_)
UpToWhitespace(s) ==
    IF s = <<>> \/ s[1] \in WHITESPACE THEN <<>> ELSE <<s[1]>> \o UpToWhitespace(Tail(s))

\* s.split()[0], for s with a character that is not white space
FirstWord(s) == UpToWhitespace(LStrip(s))

\* s.replace(c, "") for a single character c
Without(s, c) == SelectSeq(s, LAMBDA x : x # c)

RECURSIVE SplitLines(_, _)
\* text.splitlines(): `line` is the line being read
SplitLines(text, line) ==
    IF text = <<>> THEN (IF line = <<>> THEN <<>> ELSE <<line>>)
    ELSE IF text[1] \in LINE_BREAKS THEN <<line>> \o SplitLines(Tail(text), <<>>)
    ELSE SplitLines(Tail(text), Append(line, text[1]))

\* s.isalnum()
IsAlnum(s) == s # <<>> /\ \A i \in 1..Len(s) : s[i] \in Range(LOWER) \cup Range(UPPER) \cup Range(DIGITS)

Ord(c) == IndexIn(CHARS, c)

RECURSIVE StrLess(_, _)
\* a < b
StrLess(a, b) ==
    IF b = <<>> THEN FALSE
    ELSE IF a = <<>> THEN TRUE
    ELSE IF a[1] # b[1] THEN Ord(a[1]) < Ord(b[1])
    ELSE StrLess(Tail(a), Tail(b))

RECURSIVE Sorted(_)
\* sorted(S) for a set S of str
Sorted(S) ==
    IF S = {} THEN <<>>
    ELSE LET least == CHOOSE x \in S : \A y \in S \ {x} : StrLess(x, y)
         IN  <<least>> \o Sorted(S \ {least})

\* d[key] = value
Put(d, key, value) == [k \in DOMAIN d \cup {key} |-> IF k = key THEN value ELSE d[k]]

EmptyDict == [k \in {} |-> <<>>]

(***************************************************************************)
(* JSON values, as r.json() returns them                                   *)
(***************************************************************************)
JNull == [t |-> "null"]
JStr(s) == [t |-> "str", v |-> s]
JNum(n) == [t |-> "num", v |-> n]
JList(items) == [t |-> "list", v |-> items]
\* an object: a function from its keys (strings) to JSON values
JDict(fields) == [t |-> "dict", v |-> fields]

\* bool(j)
JTruthy(j) ==
    CASE j.t = "null" -> FALSE
      [] j.t = "str" -> j.v # <<>>
      [] j.t = "num" -> j.v # 0
      [] j.t = "list" -> Len(j.v) # 0
      [] j.t = "dict" -> DOMAIN j.v # {}

\* a or b
JOr(a, b) == IF JTruthy(a) THEN a ELSE b

\* d.get(key) on an object d
JGet(d, key) == IF key \in DOMAIN d.v THEN d.v[key] ELSE JNull

\* _try_get_json: what one request does is a response [kind |-> "err"] (the
\* request or raise_for_status raised) or [kind |-> "json", js]
NetErr == [kind |-> "err"]
NetJson(js) == [kind |-> "json", js |-> js]

(***************************************************************************)
(* _clean_to_jk_symbol and fetch_from_manual                               *)
(***************************************************************************)
_clean_to_jk_symbol(raw) ==
    LET s == Upper(Strip(raw))
    IN  IF s = <<>> THEN <<>>
        ELSE IF EndsWith(s, DOT_JK) THEN s
        ELSE LET w == Strip(FirstWord(s))
                 c == Without(Without(Without(w, ","), ";"), ".")
             IN  IF c = <<>> THEN <<>> ELSE c \o DOT_JK

NoFile == [kind |-> "None"]
\* an upload pandas cannot read
UnreadableFile == [kind |-> "unreadable"]
\* an upload read as a table: columns [header, cells], the cells as astype(str) gives them
TableFile(columns) == [kind |-> "table", columns |-> columns]

HEADER_KEYWORDS == {<<"c","o","d","e">>, <<"t","i","c","k","e","r">>,
                    <<"s","y","m","b","o","l">>, <<"k","o","d","e">>}

\* lines 122-135: the symbols of the uploaded file; any exception gives none
SymbolsOfFile(uploaded_file) ==
    IF uploaded_file.kind # "table" THEN <<>>
    ELSE LET cols == uploaded_file.columns
             candidate_cols == SelectSeq(cols, LAMBDA c :
                                   \E kw \in HEADER_KEYWORDS : Contains(Lower(c.header), kw))
         IN  IF candidate_cols = <<>> /\ cols = <<>> THEN <<>>
             ELSE LET col == IF candidate_cols = <<>> THEN cols[1] ELSE candidate_cols[1]
                  IN  [i \in 1..Len(col.cells) |-> _clean_to_jk_symbol(col.cells[i])]

\* lines 137-139
SymbolsOfText(text_value) ==
    LET stripped == [i \in 1..Len(SplitLines(text_value, <<>>)) |->
                        Strip(SplitLines(text_value, <<>>)[i])]
        lines == SelectSeq(stripped, LAMBDA ln : ln # <<>>)
    IN  [i \in 1..Len(lines) |-> _clean_to_jk_symbol(lines[i])]

\* the filter of line 141
UsableSymbol(s) == EndsWith(s, DOT_JK) /\ Len(s) >= 5

\* <<symbols, name_map>>
fetch_from_manual(text_value, uploaded_file) ==
    LET all == SymbolsOfFile(uploaded_file) \o SymbolsOfText(text_value)
        symbols == Sorted({s \in Range(all) : UsableSymbol(s)})
        name_map == [s \in Range(symbols) |-> Replace(s, DOT_JK, <<>>)]
    IN  <<symbols, name_map>>

(***************************************************************************)
(* fetch_from_yahoo_search_verbose                                         *)
(***************************************************************************)
\* queries = letters + digits: the sweep is modelled on its first queries,
\* one response each
QUERIES == <<"A", "B", "C", "D", "E", "F", "G", "H", "I">>

JAKARTA_EXCHANGES == {<<"J","K","T">>, <<"J","A","K","A","R","T","A">>, <<"I","D","X">>}
JAKARTA_LOWER == <<"j","a","k","a","r","t","a">>
BAD_SUFFIXES == {<<"-","W">>, <<"-","R">>, <<"-","B">>, <<"-","T","B">>,
                 <<"-","F">>, <<"-","P">>, <<"-","S">>, <<"-","Q">>}

RECURSIVE YahooQuotes(_, _)
\* lines 80-86 over the quotes left: Raised, or the tickers dict after them
YahooQuotes(tickers, quotes) ==
    IF quotes = <<>> THEN [kind |-> "ok", tickers |-> tickers]
    ELSE LET it == quotes[1]
         IN  IF it.t # "dict" THEN Raised
             ELSE LET symj == JOr(JGet(it, "symbol"), JStr(<<>>))
                      exchj == JOr(JOr(JGet(it, "exchange"), JGet(it, "exch")), JStr(<<>>))
                      dispj == JOr(JOr(JGet(it, "exchDisp"), JGet(it, "exchangeDisp")), JStr(<<>>))
                  IN  IF symj.t # "str" \/ exchj.t # "str" \/ dispj.t # "str" THEN Raised
                      ELSE LET sym == Upper(symj.v)
                               exch == Upper(exchj.v)
                               exch_disp == Lower(dispj.v)
                               name == JOr(JOr(JOr(JGet(it, "shortname"), JGet(it, "longname")),
                                               JGet(it, "name")), JStr(sym))
                               listed == \/ EndsWith(sym, DOT_JK)
                                         \/ exch \in JAKARTA_EXCHANGES
                                         \/ Contains(exch_disp, JAKARTA_LOWER)
                           IN  YahooQuotes(IF listed THEN Put(tickers, sym, name.v) ELSE tickers,
                                           Tail(quotes))

RECURSIVE YahooSweep(_, _, _, _)
\* lines 68-87 from query q on: Raised, or [tickers, errors]
YahooSweep(net, q, tickers, errors) ==
    IF q > Len(net) THEN [kind |-> "ok", tickers |-> tickers, errors |-> errors]
    ELSE LET resp == net[q]
         IN  IF resp.kind = "err"
             THEN YahooSweep(net, q + 1, tickers, Append(errors, <<"Yahoo", QUERIES[q], "error">>))
             ELSE IF ~JTruthy(resp.js)
             THEN YahooSweep(net, q + 1, tickers, Append(errors, <<"Yahoo", QUERIES[q], "no data">>))
             ELSE IF resp.js.t # "dict" THEN Raised
             ELSE LET quotes == JOr(JGet(resp.js, "quotes"), JList(<<>>))
                  IN  IF quotes.t # "list" THEN Raised
                      ELSE LET after == YahooQuotes(tickers, quotes.v)
                           IN  IF after.kind = "raised" THEN Raised
                               ELSE YahooSweep(net, q + 1, after.tickers, errors)

\* the test of lines 92-96: a symbol the light cleaning keeps
KeptByCleaning(sym) ==
    /\ ~ \E suf \in BAD_SUFFIXES : Contains(sym, suf)
    /\ Len(sym) > 3

\* Raised, or [syms, names, errs]; `net` is the responses to the queries
fetch_from_yahoo_search_verbose(net) ==
    LET swept == YahooSweep(net, 1, EmptyDict, <<>>)
    IN  IF swept.kind = "raised" THEN Raised
        ELSE LET tickers == swept.tickers
                 kept == {sym \in DOMAIN tickers : KeptByCleaning(sym)}
                 cleaned == [sym \in kept |-> tickers[sym]]
                 final_map == IF kept # {} THEN cleaned ELSE tickers
             IN  [kind |-> "ok", syms |-> Sorted(DOMAIN final_map), names |-> final_map,
                  errs |-> swept.errors]

(***************************************************************************)
(* fetch_from_idx_verbose                                                  *)
(***************************************************************************)
RECURSIVE Decimal(_)
Decimal(n) == IF n < 10 THEN <<DIGITS[n + 1]>> ELSE Decimal(n \div 10) \o <<DIGITS[(n % 10) + 1]>>

\* str(j) for a str or a natural number; the repr of anything else has a
\* bracket or a brace in it
PyStr(j) ==
    CASE j.t = "str" -> j.v
      [] j.t = "num" -> Decimal(j.v)
      [] OTHER -> <<"[", "]">>

RECURSIVE IdxRows(_, _, _)
\* lines 110-115 over the rows left: Raised, or [syms, names]
IdxRows(rows, syms, names) ==
    IF rows = <<>> THEN [kind |-> "ok", syms |-> syms, names |-> names]
    ELSE LET row == rows[1]
         IN  IF row.t # "dict" THEN Raised
             ELSE LET code == Upper(Strip(PyStr(JOr(JGet(row, "KodeEmiten"), JStr(<<>>)))))
                      namej == JOr(JOr(JGet(row, "NamaEmiten"), JGet(row, "NamaPerusahaan")),
                                   JStr(code))
                  IN  IF namej.t # "str" THEN Raised
                      ELSE LET sym == code \o DOT_JK
                           IN  IF code # <<>> /\ IsAlnum(code)
                               THEN IdxRows(Tail(rows), Append(syms, sym),
                                            Put(names, sym, Strip(namej.v)))
                               ELSE IdxRows(Tail(rows), syms, names)

\* Raised, or [syms, names, errs]; `resp` is the response to the one request
fetch_from_idx_verbose(resp) ==
    IF resp.kind = "err" THEN [kind |-> "ok", syms |-> <<>>, names |-> EmptyDict,
                               errs |-> <<<<"IDX", "error">>>>]
    ELSE IF resp.js.t # "list" THEN [kind |-> "ok", syms |-> <<>>, names |-> EmptyDict,
                                     errs |-> <<<<"IDX", "no data/list">>>>]
    ELSE LET rows == IdxRows(resp.js.v, <<>>, EmptyDict)
         IN  IF rows.kind = "raised" THEN Raised
             ELSE [kind |-> "ok", syms |-> Sorted(Range(rows.syms)), names |-> rows.names,
                   errs |-> <<>>]

(***************************************************************************)
(* The embedded fallback universe                                          *)
(***************************************************************************)
STATIC_FALLBACK == <<
    <<"B","B","C","A",".","J","K">>, <<"B","B","R","I",".","J","K">>,
    <<"B","M","R","I",".","J","K">>, <<"B","B","N","I",".","J","K">>,
    <<"T","L","K","M",".","J","K">>, <<"A","S","I","I",".","J","K">>,
    <<"U","N","V","R",".","J","K">>, <<"H","M","S","P",".","J","K">>,
    <<"I","C","B","P",".","J","K">>, <<"K","L","B","F",".","J","K">>,
    <<"I","N","D","F",".","J","K">>, <<"G","G","R","M",".","J","K">>,
    <<"U","N","T","R",".","J","K">>, <<"A","D","R","O",".","J","K">>,
    <<"P","T","B","A",".","J","K">>, <<"A","N","T","M",".","J","K">>,
    <<"T","O","W","R",".","J","K">>, <<"I","S","A","T",".","J","K">>,
    <<"E","X","C","L",".","J","K">>, <<"P","G","A","S",".","J","K">>
>>

\* {s: s.replace(".JK", "") for s in STATIC_FALLBACK}
StaticNameMap == [s \in Range(STATIC_FALLBACK) |-> Replace(s, DOT_JK, <<>>)]

(***************************************************************************)
(* resolve_universe                                                        *)
(***************************************************************************)
MODE_YAHOO == "Yahoo only"
MODE_IDX == "IDX only"
MODE_MANUAL == "Manual"
MODE_AUTO == "Auto"
Modes == {MODE_AUTO, MODE_YAHOO, MODE_IDX, MODE_MANUAL}

\* a source is turned down only when its list has fewer than three symbols
FewerThanThree(syms) == Len(syms) < 3

\* `not syms`: the test that turns a source's list down
IsEmptyList(syms) == Len(syms) = 0

\* the list handed back as it is, empty or not
NoFallback(debug_msgs, msg) ==
    [kind |-> "ok", syms |-> <<>>, names |-> EmptyDict, debug |-> Append(debug_msgs, <<msg>>)]

\* return STATIC_FALLBACK, {...}, debug_msgs after debug_msgs.append(msg)
FallbackStatic(debug_msgs, msg) ==
    [kind |-> "ok", syms |-> STATIC_FALLBACK, names |-> StaticNameMap,
     debug |-> Append(debug_msgs, <<msg>>)]

Returned(syms, names, debug_msgs) ==
    [kind |-> "ok", syms |-> syms, names |-> names, debug |-> debug_msgs]

\* `yahoo` and `idxres` are what the calls of the two fetch functions give, each
\* Raised or [syms, names, errs]; a call the mode does not make is not read
resolve_universe(mode, text_value, uploaded_file, yahoo, idxres) ==
    CASE mode = MODE_YAHOO ->
            IF yahoo.kind = "raised" THEN Raised
            ELSE IF IsEmptyList(yahoo.syms)
                 THEN FallbackStatic(yahoo.errs, "Yahoo empty -> fallback STATIC")
                 ELSE Returned(yahoo.syms, yahoo.names, yahoo.errs)
      [] mode = MODE_IDX ->
            IF idxres.kind = "raised" THEN Raised
            ELSE IF IsEmptyList(idxres.syms)
                 THEN FallbackStatic(idxres.errs, "IDX empty -> fallback STATIC")
                 ELSE Returned(idxres.syms, idxres.names, idxres.errs)
      [] mode = MODE_MANUAL ->
            LET m == fetch_from_manual(text_value, uploaded_file)
            IN  IF IsEmptyList(m[1])
                THEN FallbackStatic(<<>>, "Manual empty -> fallback STATIC")
                ELSE Returned(m[1], m[2], <<>>)
      [] OTHER ->
            IF yahoo.kind = "raised" THEN Raised
            ELSE IF ~IsEmptyList(yahoo.syms) THEN Returned(yahoo.syms, yahoo.names, yahoo.errs)
            ELSE IF idxres.kind = "raised" THEN Raised
            ELSE IF ~IsEmptyList(idxres.syms)
                 THEN Returned(idxres.syms, idxres.names, yahoo.errs \o idxres.errs)
                 ELSE FallbackStatic(yahoo.errs \o idxres.errs, "Auto empty -> fallback STATIC")

\* whether resolve_universe calls fetch_from_yahoo_search_verbose (lines 149, 172)
CallsYahoo(mode) == mode \notin {MODE_IDX, MODE_MANUAL}

\* whether it calls fetch_from_idx_verbose (lines 157, 176), `yahoo` being what
\* the Yahoo call gave
CallsIdx(mode, yahoo) ==
    \/ mode = MODE_IDX
    \/ mode \notin {MODE_YAHOO, MODE_MANUAL} /\ yahoo.kind = "ok" /\ IsEmptyList(yahoo.syms)

(***************************************************************************)
(* st.cache_data(ttl=3600) around the two fetch functions                  *)
(***************************************************************************)
CACHE_TTL == 3600

NoEntry == [kind |-> "none"]

\* an entry that never expires
CacheNeverExpires(entry, t) == entry.kind = "entry"

\* an entry is served while it is younger than the ttl
CacheValid(entry, t) == entry.kind = "entry" /\ t - entry.at < CACHE_TTL

\* the decorated function called at time t: `computed` is what the function
\* body gives if run.  A raise is not cached.
CachedCall(entry, t, computed) ==
    IF CacheValid(entry, t)
    THEN [value |-> entry.value, entry |-> entry, ran |-> FALSE]
    ELSE [value |-> computed,
          entry |-> IF computed.kind = "raised" THEN NoEntry
                    ELSE [kind |-> "entry", value |-> computed, at |-> t],
          ran |-> TRUE]

(***************************************************************************)
(* The values of the variables a specification leaves alone                *)
(***************************************************************************)
ScreenIdle == fetched = Raised /\ res = Pending /\ rsi = Pending

NotAsked == [kind |-> "not asked"]

NoSession ==
    [has_scan |-> FALSE, last_scan |-> 0, has_results |-> FALSE, results |-> <<>>, errors |-> <<>>]

AppIdle ==
    /\ pc = "idle" /\ rerun = FALSE /\ now = 0
    /\ source_mode = MODE_AUTO /\ manual_text = <<>> /\ manual_file = NoFile
    /\ clear_clicked = FALSE /\ scan_clicked = FALSE /\ auto_refresh = FALSE
    /\ yahoo_net = NotAsked /\ idx_net = NotAsked
    /\ cache_yahoo = NoEntry /\ cache_idx = NoEntry
    /\ called = {} /\ ran = {}
    /\ session = NoSession

UniverseIdle ==
    /\ SYMBOLS = <<>>
    /\ NAME_MAP = <<>>
    /\ DEBUG_MSGS = <<>>
    /\ script_error = FALSE
    /\ market = <<>>

ScanIdle ==
    /\ scan_pc = "idle"
    /\ idx = 0
    /\ filtered = <<>>
    /\ failed = <<>>
    /\ evaluated = <<>>
    /\ slept = 0
    /\ progress = <<0, 1>>
    /\ scan_ret = Pending

(***************************************************************************)
(* The screening engine on one ticker: every history up to MaxBars bars    *)
(***************************************************************************)
\* closes in rupiah; 5000 -> 5100 and 5100 -> 5202 are exactly 2 %
ClosePrices == {0, 5000, 5100, 5202}
\* volumes of the last bar, in millions of shares
LastVolumes == {2, 3}
\* thresholds of the sidebar (0.5 .. 10.0 in steps of 0.5): 2.0 and 2.5
Thresholds == {Rat(2, 1), Rat(5, 2)}
\* minimum turnovers of the sidebar (1 .. 100 billion), in millions
MinTurnovers == {15000, 15606}
\* the sidebar offers 2 .. 5 days
DayCounts == {2, 3}

HistoryOf(closes, volume) ==
    Frame([i \in 1..Len(closes) |-> [Close |-> closes[i], Volume |-> volume]])

GotHistory(hist) == [kind |-> "ok", hist |-> hist, longName |-> <<>>]

ScreenTicker == STATIC_FALLBACK[1]

ScreenInit ==
    /\ \/ fetched = Raised
       \/ fetched = GotHistory(None)
       \/ \E closes \in SeqsUpTo(ClosePrices, MaxBars), v \in LastVolumes :
              fetched = GotHistory(HistoryOf(closes, v))
    /\ crit \in [min_trading_value : MinTurnovers, price_threshold : Thresholds,
                 num_consecutive_days : DayCounts, include_indicators : BOOLEAN]
    /\ res = Pending /\ rsi = Pending
    /\ AppIdle /\ UniverseIdle /\ ScanIdle

\* one call of process_single_stock
Evaluate ==
    /\ res = Pending
    /\ res' = process_single_stock(ScreenTicker, crit.min_trading_value, crit.price_threshold,
                                   crit.num_consecutive_days, crit.include_indicators,
                                   StaticNameMap, fetched)
    /\ UNCHANGED <<fetched, rsi, crit, runVars, now, uiVars, netVars, cacheVars, universeVars,
                   session, market, scanVars>>

ScreenNext == Evaluate

SpecScreen == ScreenInit /\ [][ScreenNext]_vars

\* ---- the claims on the screening engine
HasHistory == fetched.kind = "ok" /\ ~IsNone(fetched.hist)

BarCount == Bars(fetched.hist)

\* the close of the bar k places before the last one (0: the last bar)
CloseBack(k) == fetched.hist.bars[BarCount - k].Close

\* the change from bar k+1 before the last to bar k before the last is at or
\* above the threshold num/den percent
GainAtLeast(k, thr) ==
    IF CloseBack(k + 1) # 0
    THEN (CloseBack(k) - CloseBack(k + 1)) * 100 * thr.den >= thr.num * CloseBack(k + 1)
    ELSE CloseBack(k) > 0

GainRule == \A k \in 0..(crit.num_consecutive_days - 1) : GainAtLeast(k, crit.price_threshold)

TurnoverRule ==
    CloseBack(0) * fetched.hist.bars[BarCount].Volume >= crit.min_trading_value

IsRow(r) == r.success /\ ~IsNone(r.data)

\* C1: with a history of at least consecutiveDays+1 bars, process_single_stock
\* returns a row exactly when each of the last consecutiveDays changes is at or
\* above the threshold and last close x last volume is at or above the minimum
\* turnover; otherwise it returns success with no row.
C1_RowIffBothRules ==
    (res # Pending /\ HasHistory /\ BarCount >= crit.num_consecutive_days + 1)
    => IF GainRule /\ TurnoverRule
       THEN IsRow(res) /\ res.data.NilaiTransaksi >= crit.min_trading_value
       ELSE res = [success |-> TRUE, data |-> None]

\* a row whose oldest change equals the threshold and whose turnover equals the minimum
C1_Witness ==
    /\ res # Pending /\ HasHistory
    /\ BarCount >= crit.num_consecutive_days + 1
    /\ IsRow(res)
    /\ (CloseBack(0) - CloseBack(1)) * 100 * crit.price_threshold.den
           = crit.price_threshold.num * CloseBack(1)
    /\ res.data.NilaiTransaksi = crit.min_trading_value

\* C2: a history shorter than consecutiveDays+1 bars, empty or None, that was
\* fetched without a raise gives success with no row, whatever the criteria.
C2_ShortHistoryNoRow ==
    (res # Pending /\ fetched.kind = "ok"
       /\ (IsNone(fetched.hist) \/ BarCount < crit.num_consecutive_days + 1))
    => res = [success |-> TRUE, data |-> None]

\* a history of exactly consecutiveDays bars, evaluated with the indicators on
C2_Witness ==
    /\ res # Pending /\ HasHistory
    /\ BarCount = crit.num_consecutive_days
    /\ crit.include_indicators
    /\ res = [success |-> TRUE, data |-> None]

(***************************************************************************)
(* scan_stocks_with_progress                                               *)
(***************************************************************************)
PAUSE_EVERY == 50

\* the defaults of scan_stocks_with_progress, the turnover in millions
DefaultCriteria ==
    [min_trading_value |-> 15000, price_threshold |-> Rat(2, 1),
     num_consecutive_days |-> 2, include_indicators |-> FALSE]

\* yfinance on a symbol it does not know: an empty frame
GotFor(t) == IF t \in DOMAIN market THEN market[t] ELSE GotHistory(Frame(<<>>))

ProcessTicker(t) ==
    process_single_stock(t, crit.min_trading_value, crit.price_threshold,
                         crit.num_consecutive_days, crit.include_indicators,
                         NAME_MAP, GotFor(t))

\* the result of one ticker put at the head of its list
CollectAtHead(lists, r) ==
    IF r.success
    THEN IF ~IsNone(r.data) THEN <<<<r.data>> \o lists[1], lists[2]>> ELSE lists
    ELSE <<lists[1], <<[ticker |-> r.ticker, error |-> r.error]>> \o lists[2]>>

\* lines 320-324: <<filtered, failed>> after the result r of one ticker
Collect(lists, r) ==
    IF r.success
    THEN IF ~IsNone(r.data) THEN <<Append(lists[1], r.data), lists[2]>> ELSE lists
    ELSE <<lists[1], Append(lists[2], [ticker |-> r.ticker, error |-> r.error])>>

Max(a, b) == IF a >= b THEN a ELSE b

\* lines 314-316: the call, before the first iteration
ScanCall ==
    /\ scan_pc = "call"
    /\ scan_pc' = "loop"
    /\ idx' = 0
    /\ filtered' = <<>>
    /\ failed' = <<>>
    /\ evaluated' = <<>>
    /\ slept' = 0
    /\ progress' = <<0, 1>>
    /\ scan_ret' = Pending

\* lines 317-327: one iteration of the loop, with its pause and its progress report
ScanStep ==
    /\ scan_pc = "loop"
    /\ idx < Len(SYMBOLS)
    /\ LET t == SYMBOLS[idx + 1]
           r == ProcessTicker(t)
           lists == Collect(<<filtered, failed>>, r)
       IN  /\ evaluated' = Append(evaluated, t)
           /\ filtered' = lists[1]
           /\ failed' = lists[2]
    /\ slept' = IF (idx + 1) % PAUSE_EVERY = 0 THEN slept + 1 ELSE slept
    /\ now' = IF (idx + 1) % PAUSE_EVERY = 0 THEN now + 1 ELSE now
    /\ progress' = <<idx + 1, Max(Len(SYMBOLS), 1)>>
    /\ idx' = idx + 1
    /\ UNCHANGED <<scan_pc, scan_ret>>

\* lines 328-332: the loop is over, the lists are returned
ScanReturn ==
    /\ scan_pc = "loop"
    /\ idx = Len(SYMBOLS)
    /\ scan_pc' = "returned"
    /\ scan_ret' = [results |-> filtered, errors |-> failed]
    /\ UNCHANGED <<idx, filtered, failed, evaluated, slept, progress>>

(***************************************************************************)
(* The batch scanner on ticker lists up to one past the first pause, the   *)
(* provider repeating a pattern of outcomes along the numbered tickers     *)
(***************************************************************************)
\* tickers scanned beyond the PAUSE_EVERY-th
ExtraTickers == 1
\* the length of the provider's pattern
PatternLen == 3

ScanSizes == (0..3) \cup (PAUSE_EVERY..(PAUSE_EVERY + ExtraTickers))

Digit(i) == <<"0", "1", "2", "3", "4", "5", "6", "7", "8", "9">>[i + 1]

\* the k-th ticker of a numbered universe: T07.JK
TickerNo(k) == <<"T", Digit((k \div 10) % 10), Digit(k % 10)>> \o DOT_JK

\* what the provider can do for a ticker: raise (a timeout), return nothing,
\* return a history that passes both rules, one that fails the gain rule
GotCases == <<
    Raised,
    GotHistory(Frame(<<>>)),
    GotHistory(HistoryOf(<<5000, 5100, 5202>>, 3)),
    GotHistory(HistoryOf(<<5000, 5100, 5100>>, 100)) >>

ScanInit ==
    /\ ScreenIdle
    /\ crit = DefaultCriteria
    /\ \E n \in ScanSizes, rev \in BOOLEAN, pat \in [0..(PatternLen - 1) -> 1..Len(GotCases)] :
          /\ SYMBOLS = [i \in 1..n |-> TickerNo(IF rev THEN n + 1 - i ELSE i)]
          /\ market = [t \in {TickerNo(k) : k \in 1..n} |->
                          LET k == CHOOSE j \in 1..n : TickerNo(j) = t
                          IN  GotCases[pat[k % PatternLen]]]
    /\ NAME_MAP = <<>> /\ DEBUG_MSGS = <<>> /\ script_error = FALSE
    /\ AppIdle
    /\ scan_pc = "call"
    /\ idx = 0 /\ filtered = <<>> /\ failed = <<>> /\ evaluated = <<>>
    /\ slept = 0 /\ progress = <<0, 1>> /\ scan_ret = Pending

scanFrame == <<screenVars, crit, runVars, uiVars, netVars, cacheVars, universeVars, session, market>>

ScanNext ==
    \/ ScanCall /\ UNCHANGED <<scanFrame, now>>
    \/ ScanStep /\ UNCHANGED scanFrame
    \/ ScanReturn /\ UNCHANGED <<scanFrame, now>>

SpecScan == ScanInit /\ [][ScanNext]_vars

\* ---- the claim on the batch scanner
Passes(t) == IsRow(ProcessTicker(t))
Raises(t) == GotFor(t).kind = "raised"

PassingTickers == SelectSeq(SYMBOLS, Passes)
RaisingTickers == SelectSeq(SYMBOLS, Raises)

\* C3: the scan evaluates every ticker once, in input order; it returns the
\* rows of the passing tickers in input order and, as failures, the tickers
\* whose evaluation raised, in input order; a raise stops nothing after it.
C3_ScanListsExact ==
    /\ scan_pc \in {"loop", "returned"} => evaluated = SubSeq(SYMBOLS, 1, idx)
    /\ scan_pc = "returned" =>
          /\ evaluated = SYMBOLS
          /\ scan_ret.results = [i \in 1..Len(PassingTickers) |-> ProcessTicker(PassingTickers[i]).data]
          /\ [i \in 1..Len(scan_ret.errors) |-> scan_ret.errors[i].ticker] = RaisingTickers

\* a scan past the pause that returned, with a raise before a passing ticker
C3_Witness ==
    /\ scan_pc = "returned"
    /\ slept >= 1
    /\ Len(SYMBOLS) > PAUSE_EVERY
    /\ \E i, j \in 1..Len(SYMBOLS) : i < j /\ Raises(SYMBOLS[i]) /\ Passes(SYMBOLS[j])
    /\ Len(scan_ret.results) >= 2 /\ Len(scan_ret.errors) >= 2
(***************************************************************************)
(* The script, top to bottom, one run per user event or st.rerun()         *)
(***************************************************************************)
AUTO_REFRESH_SECONDS == 300

\* the variables a step of the script before the scan leaves alone
beforeScan == <<screenVars, crit, now, market, scanVars, session>>

\* Streamlit starts a run: the buttons are True only in the run their click started
StartRun(clear, scan) ==
    /\ pc = "idle"
    /\ pc' = "clear"
    /\ rerun' = FALSE
    /\ clear_clicked' = clear
    /\ scan_clicked' = scan
    /\ script_error' = FALSE

\* the user picks a source (line 336); the manual widgets exist only in Manual
\* mode (lines 342-346)
SelectSource(m) ==
    /\ StartRun(FALSE, FALSE)
    /\ source_mode' = m
    /\ manual_text' = <<>>
    /\ manual_file' = NoFile
    /\ UNCHANGED <<auto_refresh, SYMBOLS, NAME_MAP, DEBUG_MSGS, netVars, cacheVars, beforeScan>>

\* the user pastes codes or uploads a file (lines 345-346)
EditManual(text, file) ==
    /\ source_mode = MODE_MANUAL
    /\ StartRun(FALSE, FALSE)
    /\ manual_text' = text
    /\ manual_file' = file
    /\ UNCHANGED <<source_mode, auto_refresh, SYMBOLS, NAME_MAP, DEBUG_MSGS, netVars, cacheVars,
                   beforeScan>>

\* the user presses "Clear Cache" (line 348)
ClickClearCache ==
    /\ StartRun(TRUE, FALSE)
    /\ UNCHANGED <<source_mode, manual_text, manual_file, auto_refresh, SYMBOLS, NAME_MAP,
                   DEBUG_MSGS, netVars, cacheVars, beforeScan>>

\* the user presses "Scan Saham" (line 396)
ClickScan ==
    /\ StartRun(FALSE, TRUE)
    /\ UNCHANGED <<source_mode, manual_text, manual_file, auto_refresh, SYMBOLS, NAME_MAP,
                   DEBUG_MSGS, netVars, cacheVars, beforeScan>>

\* the user ticks or unticks "Auto Refresh" (line 404)
ToggleAutoRefresh ==
    /\ StartRun(FALSE, FALSE)
    /\ auto_refresh' = ~auto_refresh
    /\ UNCHANGED <<source_mode, manual_text, manual_file, SYMBOLS, NAME_MAP, DEBUG_MSGS,
                   netVars, cacheVars, beforeScan>>

\* time passes between two runs
Tick(d, limit) ==
    /\ pc = "idle"
    /\ now + d <= limit
    /\ now' = now + d
    /\ UNCHANGED <<screenVars, crit, runVars, uiVars, netVars, cacheVars, universeVars, session,
                   market, scanVars>>

\* fetch_from_yahoo_search_verbose.clear(); fetch_from_idx_verbose.clear()
ClearedCache(entry) == NoEntry

\* lines 348-351
ClearCacheButton ==
    /\ pc = "clear"
    /\ pc' = "resolve"
    /\ cache_yahoo' = IF clear_clicked THEN ClearedCache(cache_yahoo) ELSE cache_yahoo
    /\ cache_idx' = IF clear_clicked THEN ClearedCache(cache_idx) ELSE cache_idx
    /\ UNCHANGED <<rerun, uiVars, netVars, called, ran, universeVars, beforeScan>>

\* lines 353-354: resolve_universe with the two cached fetch functions, the
\* live sources answering from YahooNets and IdxNets when they are asked
ResolveUniverse(YahooNets, IdxNets) ==
    /\ pc = "resolve"
    /\ \E yn \in IF CallsYahoo(source_mode) /\ ~CacheValid(cache_yahoo, now)
                 THEN YahooNets ELSE {NotAsked} :
          LET ycall == CachedCall(cache_yahoo, now, fetch_from_yahoo_search_verbose(yn))
              asksIdx == CallsIdx(source_mode, ycall.value)
          IN  \E rn \in IF asksIdx /\ ~CacheValid(cache_idx, now) THEN IdxNets ELSE {NotAsked} :
                 LET icall == CachedCall(cache_idx, now, fetch_from_idx_verbose(rn))
                     r == resolve_universe(source_mode, manual_text, manual_file,
                                           ycall.value, icall.value)
                 IN  /\ called' = (IF CallsYahoo(source_mode) THEN {"yahoo"} ELSE {})
                                      \cup (IF asksIdx THEN {"idx"} ELSE {})
                     /\ ran' = (IF CallsYahoo(source_mode) /\ ycall.ran THEN {"yahoo"} ELSE {})
                                   \cup (IF asksIdx /\ icall.ran THEN {"idx"} ELSE {})
                     /\ yahoo_net' = IF yn = NotAsked THEN yahoo_net ELSE yn
                     /\ idx_net' = IF rn = NotAsked THEN idx_net ELSE rn
                     /\ cache_yahoo' = IF CallsYahoo(source_mode) THEN ycall.entry ELSE cache_yahoo
                     /\ cache_idx' = IF asksIdx THEN icall.entry ELSE cache_idx
                     /\ IF r.kind = "raised"
                        THEN /\ script_error' = TRUE
                             /\ pc' = "idle"
                             /\ UNCHANGED <<SYMBOLS, NAME_MAP, DEBUG_MSGS>>
                        ELSE /\ SYMBOLS' = r.syms
                             /\ NAME_MAP' = r.names
                             /\ DEBUG_MSGS' = r.debug
                             /\ pc' = "scan_button"
                             /\ UNCHANGED script_error
    /\ UNCHANGED <<rerun, uiVars, beforeScan>>

\* lines 396-400: the scan button
ScanButton ==
    /\ pc = "scan_button"
    /\ IF scan_clicked
       THEN /\ session' = [session EXCEPT !.has_scan = TRUE, !.last_scan = now]
            /\ scan_pc' = "call"
            /\ pc' = "scanning"
       ELSE /\ pc' = "auto_check"
            /\ UNCHANGED <<session, scan_pc>>
    /\ UNCHANGED <<screenVars, crit, rerun, now, uiVars, netVars, cacheVars, universeVars, market,
                   idx, filtered, failed, evaluated, slept, progress, scan_ret>>

\* lines 401-402
StoreResults ==
    /\ pc = "scanning"
    /\ scan_pc = "returned"
    /\ session' = [session EXCEPT !.has_results = TRUE, !.results = scan_ret.results,
                                  !.errors = scan_ret.errors]
    /\ scan_pc' = "idle"
    /\ pc' = "auto_check"
    /\ UNCHANGED <<screenVars, crit, rerun, now, uiVars, netVars, cacheVars, universeVars, market,
                   idx, filtered, failed, evaluated, slept, progress, scan_ret>>

\* the test of lines 455-456
RefreshDue == auto_refresh /\ session.has_scan /\ now - session.last_scan >= AUTO_REFRESH_SECONDS

\* lines 455-457: st.rerun() when the refresh is due, else the run ends
AutoRefresh ==
    /\ pc = "auto_check"
    /\ IF RefreshDue
       THEN pc' = "clear" /\ rerun' = TRUE
       ELSE pc' = "idle" /\ rerun' = FALSE
    /\ clear_clicked' = FALSE
    /\ scan_clicked' = FALSE
    /\ UNCHANGED <<source_mode, manual_text, manual_file, auto_refresh, netVars, cacheVars,
                   universeVars, beforeScan>>

(***************************************************************************)
(* The live sources: what a request can bring                              *)
(***************************************************************************)
BBCA_JK == STATIC_FALLBACK[1]
TLKM_JK == STATIC_FALLBACK[5]

QuoteBBCA == JDict([symbol |-> JStr(BBCA_JK), exchange |-> JStr(<<"J","K","T">>),
                    shortname |-> JStr(<<"B","C","A">>)])
\* lower case, no exchange, no name
QuoteLower == JDict([symbol |-> JStr(<<"b","b","r","i",".","j","k">>)])
QuoteTLKM == JDict([symbol |-> JStr(TLKM_JK), exchDisp |-> JStr(<<"J","a","k","a","r","t","a">>),
                    longname |-> JStr(<<"T","e","l","k","o","m">>)])
\* a warrant
QuoteWarrant == JDict([symbol |-> JStr(<<"B","B","C","A","-","W",".","J","K">>),
                       exchange |-> JStr(<<"J","K","T">>)])
\* listed elsewhere
QuoteForeign == JDict([symbol |-> JStr(<<"A","A","P","L">>), exchange |-> JStr(<<"N","M","S">>)])
\* a Jakarta quote with a three-letter symbol and no suffix
QuoteShort == JDict([symbol |-> JStr(<<"A","B","C">>), exchange |-> JStr(<<"J","K","T">>)])

Quotes(items) == NetJson(JDict([quotes |-> JList(items)]))

\* one response of the Yahoo search
YahooResponses == {
    NetErr,
    NetJson(JNull),
    NetJson(JDict([count |-> JNum(0)])),
    NetJson(JList(<<JNum(1)>>)),
    Quotes(<<JStr(<<"x">>)>>),
    Quotes(<<JDict([symbol |-> JNum(5)])>>),
    Quotes(<<QuoteBBCA>>),
    Quotes(<<QuoteLower, QuoteBBCA>>),
    Quotes(<<QuoteForeign, QuoteWarrant, QuoteTLKM>>),
    Quotes(<<QuoteShort>>),
    Quotes(<<QuoteForeign>>) }

\* sweeps of QueriesModelled queries
QueriesModelled == 2

YahooSweeps == [1..QueriesModelled -> YahooResponses]

IdxRow(code, name) == JDict([KodeEmiten |-> code, NamaEmiten |-> name])

\* the response of the IDX directory
IdxResponses == {
    NetErr,
    NetJson(JDict([error |-> JStr(<<"x">>)])),
    NetJson(JList(<<>>)),
    NetJson(JList(<<IdxRow(JStr(<<"B","B","C","A">>), JStr(<<"B","C","A"," ">>))>>)),
    NetJson(JList(<<IdxRow(JStr(<<" ","t","l","k","m">>), JNull),
                    IdxRow(JStr(<<"B","B","C","A">>), JNull),
                    IdxRow(JStr(<<"B","B","C","A">>), JNull)>>)),
    NetJson(JList(<<JStr(<<"x">>)>>)),
    NetJson(JList(<<IdxRow(JStr(<<"B","B","C","A">>), JNum(5))>>)),
    NetJson(JList(<<IdxRow(JNum(7), JNull)>>)),
    NetJson(JList(<<IdxRow(JStr(<<"B","B","-","C","A">>), JNull)>>)) }

(***************************************************************************)
(* resolve_universe, once, on every source mode and input                  *)
(***************************************************************************)
\* the longest pasted text
MaxTextLen == 5

ManualChars == {"b", "j", "K", ".", ",", " ", "\n"}

ManualTexts == SeqsUpTo(ManualChars, MaxTextLen)

Column(header, cells) == [header |-> header, cells |-> cells]

\* uploads, each with the text pasted beside it
ManualUploads == {
    [file |-> UnreadableFile, text |-> <<>>],
    [file |-> UnreadableFile, text |-> <<"b","b">>],
    [file |-> TableFile(<<>>), text |-> <<>>],
    [file |-> TableFile(<<Column(<<"N","o">>, << <<"1">>, <<"2">> >>),
                          Column(<<"K","o","d","e">>, << <<"b","b","c","a">>, TLKM_JK,
                                                         <<"b",",","b",";","c",".">> >>)>>),
     text |-> <<"b","b">>],
    [file |-> TableFile(<<Column(<<"N","o">>, << <<"1">>, <<"n","a","n">> >>)>>),
     text |-> <<>>] }

UniverseInit ==
    /\ ScreenIdle /\ ScanIdle
    /\ crit = DefaultCriteria
    /\ market = <<>>
    /\ pc = "resolve" /\ rerun = FALSE /\ now = 0
    /\ source_mode \in Modes
    /\ IF source_mode = MODE_MANUAL
       THEN \/ manual_file = NoFile /\ manual_text \in ManualTexts
            \/ \E u \in ManualUploads : manual_file = u.file /\ manual_text = u.text
       ELSE manual_file = NoFile /\ manual_text = <<>>
    /\ clear_clicked = FALSE /\ scan_clicked = FALSE /\ auto_refresh = FALSE
    /\ yahoo_net = NotAsked /\ idx_net = NotAsked
    /\ cache_yahoo = NoEntry /\ cache_idx = NoEntry
    /\ called = {} /\ ran = {}
    /\ SYMBOLS = <<>> /\ NAME_MAP = <<>> /\ DEBUG_MSGS = <<>> /\ script_error = FALSE
    /\ session = NoSession

UniverseNext == ResolveUniverse(YahooSweeps, IdxResponses)

SpecUniverse == UniverseInit /\ [][UniverseNext]_vars
\* ---- the claims on the universe resolver
Resolved == pc = "scan_button"

\* what the two fetch functions returned in this resolution: the cache keeps it
YahooSyms == cache_yahoo.value.syms
IdxSyms == cache_idx.value.syms

YahooGaveNone == cache_yahoo.kind = "entry" /\ Len(YahooSyms) = 0
IdxGaveNone == cache_idx.kind = "entry" /\ Len(IdxSyms) = 0

\* no usable code in the manual input: none that ends with .JK after cleaning
\* and has at least five characters
ManualGaveNone ==
    \A s \in Range(SymbolsOfFile(manual_file)) \cup Range(SymbolsOfText(manual_text)) :
        ~(EndsWith(s, DOT_JK) /\ Len(s) >= 5)

SourcesGaveNone ==
    CASE source_mode = MODE_YAHOO -> YahooGaveNone
      [] source_mode = MODE_IDX -> IdxGaveNone
      [] source_mode = MODE_MANUAL -> ManualGaveNone
      [] OTHER -> YahooGaveNone /\ IdxGaveNone

FallbackMessage ==
    CASE source_mode = MODE_YAHOO -> "Yahoo empty -> fallback STATIC"
      [] source_mode = MODE_IDX -> "IDX empty -> fallback STATIC"
      [] source_mode = MODE_MANUAL -> "Manual empty -> fallback STATIC"
      [] OTHER -> "Auto empty -> fallback STATIC"

\* C4: in every mode resolve_universe returns a non-empty list; when the
\* sources the mode consults yield no tickers it returns the static fallback
\* list, with a diagnostic saying so.
C4_NeverEmptyUniverse ==
    Resolved =>
        /\ Len(SYMBOLS) > 0
        /\ SourcesGaveNone =>
              /\ SYMBOLS = STATIC_FALLBACK
              /\ Len(DEBUG_MSGS) > 0
              /\ DEBUG_MSGS[Len(DEBUG_MSGS)] = <<FallbackMessage>>

\* Auto mode, both live sources failing, one with an error on record
C4_Witness ==
    /\ Resolved
    /\ source_mode = MODE_AUTO
    /\ YahooGaveNone /\ IdxGaveNone
    /\ SYMBOLS = STATIC_FALLBACK
    /\ Len(DEBUG_MSGS) >= 3

\* C5 as claimed: in Auto mode a source returning only 1 or 2 symbols is
\* turned down and resolution falls through to the next source.
C5_SmallResultRejected ==
    (Resolved /\ source_mode = MODE_AUTO /\ cache_yahoo.kind = "entry"
        /\ Len(YahooSyms) \in {1, 2})
    => SYMBOLS # YahooSyms /\ "idx" \in called

\* C5, amended: in Auto mode the sources are tried in the order Yahoo, IDX, and
\* the first whose list is not empty is returned, whatever its size; the static
\* fallback list is returned exactly when both lists are empty.
C5_FirstNonEmptySource ==
    (Resolved /\ source_mode = MODE_AUTO) =>
        /\ "yahoo" \in called /\ cache_yahoo.kind = "entry"
        /\ IF Len(YahooSyms) >= 1
           THEN SYMBOLS = YahooSyms /\ "idx" \notin called
           ELSE /\ "idx" \in called /\ cache_idx.kind = "entry"
                /\ IF Len(IdxSyms) >= 1 THEN SYMBOLS = IdxSyms
                   ELSE SYMBOLS = STATIC_FALLBACK

\* Auto mode returning the single symbol Yahoo gave
C5_Witness ==
    /\ Resolved /\ source_mode = MODE_AUTO
    /\ cache_yahoo.kind = "entry" /\ Len(YahooSyms) = 1
    /\ SYMBOLS = YahooSyms
    /\ called = {"yahoo"}

\* C6: no exception escapes resolve_universe, whatever a live source sends.
C6_NoExceptionEscapes == ~script_error

NoneOf(s, chars) == \A i \in 1..Len(s) : s[i] \notin chars

\* upper case, ".JK" at the end and only there, no white space, comma,
\* semicolon or period before it
Canonical(ticker) ==
    /\ Upper(ticker) = ticker
    /\ EndsWith(ticker, DOT_JK)
    /\ NoneOf(SubSeq(ticker, 1, Len(ticker) - 3), WHITESPACE \cup {",", ";", "."})

\* C8: every ticker Manual mode returns is canonical and appears once; with no
\* usable code the static fallback list is returned.
C8_ManualCanonical ==
    (Resolved /\ source_mode = MODE_MANUAL) =>
        \/ SYMBOLS = STATIC_FALLBACK
        \/ /\ \A i \in 1..Len(SYMBOLS) : Canonical(SYMBOLS[i])
           /\ \A i, j \in 1..Len(SYMBOLS) : SYMBOLS[i] = SYMBOLS[j] => i = j
(***************************************************************************)
(* calculate_rsi on histories that grow bar by bar, each close one rupiah  *)
(* above or below the one before                                           *)
(***************************************************************************)
\* the longest history given to calculate_rsi
MaxRsiBars == 16
\* the first close
FirstClose == 20

CloseMoves == {-1, 1}

RsiInit ==
    /\ fetched = GotHistory(HistoryOf(<<FirstClose>>, 1))
    /\ res = Pending /\ rsi = Pending
    /\ crit = DefaultCriteria
    /\ AppIdle /\ UniverseIdle /\ ScanIdle

\* the provider has one more bar
NextBar(move) ==
    /\ rsi = Pending
    /\ Bars(fetched.hist) < MaxRsiBars
    /\ LET bars == fetched.hist.bars
           close == bars[Len(bars)].Close + move
       IN  /\ close >= 1
           /\ fetched' = GotHistory(Frame(Append(bars, [Close |-> close, Volume |-> 1])))
    /\ UNCHANGED <<res, rsi>>

\* line 300: rsi = calculate_rsi(hist)
ComputeRsi ==
    /\ rsi = Pending
    /\ rsi' = calculate_rsi(fetched.hist, RSI_PERIOD)
    /\ UNCHANGED <<fetched, res>>

rsiFrame == <<crit, runVars, now, uiVars, netVars, cacheVars, universeVars, session, market, scanVars>>

RsiNext ==
    \/ \E move \in CloseMoves : NextBar(move) /\ UNCHANGED rsiFrame
    \/ ComputeRsi /\ UNCHANGED rsiFrame

SpecRsi == RsiInit /\ [][RsiNext]_vars

\* ---- the claim on calculate_rsi
RsiBars == fetched.hist.bars

\* the last n day-over-day changes all have the sign sgn (1 or -1)
LastChangesAll(n, sgn) ==
    \A i \in (Len(RsiBars) - n + 1)..Len(RsiBars) :
        (RsiBars[i].Close - RsiBars[i - 1].Close) * sgn > 0

\* C7 as claimed: with at least 15 bars, closes strictly increasing over the
\* last 14 changes give exactly 100 and strictly decreasing ones exactly 0,
\* whatever the closes before that window.
C7_MonotoneWindow ==
    (rsi # Pending /\ Len(RsiBars) >= RSI_PERIOD + 1) =>
        /\ LastChangesAll(RSI_PERIOD, 1) => rsi = Rat(100, 1)
        /\ LastChangesAll(RSI_PERIOD, -1) => rsi = Rat(0, 1)

\* C7, amended: with at least 15 bars, closes strictly increasing over the
\* whole fetched history give exactly 100 and strictly decreasing ones exactly
\* 0; the window is the whole history when there are exactly 15 bars.
C7_MonotoneHistory ==
    (rsi # Pending /\ Len(RsiBars) >= RSI_PERIOD + 1) =>
        /\ LastChangesAll(Len(RsiBars) - 1, 1) => rsi = Rat(100, 1)
        /\ LastChangesAll(Len(RsiBars) - 1, -1) => rsi = Rat(0, 1)

\* more bars than the window, all rising, and the value 100
C7_Witness ==
    /\ rsi = Rat(100, 1)
    /\ Len(RsiBars) > RSI_PERIOD + 1
    /\ LastChangesAll(Len(RsiBars) - 1, 1)

(***************************************************************************)
(* The script with its caches: sources picked, the cache cleared, time     *)
(* passing in steps of twenty minutes and of an hour                       *)
(***************************************************************************)
\* the clock stops here, in seconds
MaxCacheTime == 7200

CacheTicks == {1200, 3600}

LiveModes == {MODE_AUTO, MODE_YAHOO, MODE_IDX}

SameForAll(resp) == [q \in 1..QueriesModelled |-> resp]

CacheYahooSweeps ==
    {SameForAll(NetErr), SameForAll(Quotes(<<QuoteBBCA>>)), SameForAll(NetJson(JList(<<JNum(1)>>)))}

CacheIdxResponses ==
    {NetErr,
     NetJson(JList(<<IdxRow(JStr(<<"B","B","C","A">>), JNull)>>)),
     NetJson(JList(<<JStr(<<"x">>)>>))}

\* a session opens: the first run starts with the widgets at their defaults
SessionInit ==
    /\ ScreenIdle /\ ScanIdle /\ UniverseIdle
    /\ crit = DefaultCriteria
    /\ pc = "clear" /\ rerun = FALSE /\ now = 0
    /\ source_mode = MODE_AUTO /\ manual_text = <<>> /\ manual_file = NoFile
    /\ clear_clicked = FALSE /\ scan_clicked = FALSE /\ auto_refresh = FALSE
    /\ yahoo_net = NotAsked /\ idx_net = NotAsked
    /\ cache_yahoo = NoEntry /\ cache_idx = NoEntry
    /\ called = {} /\ ran = {}
    /\ session = NoSession

CacheNext ==
    \/ \E m \in LiveModes : SelectSource(m)
    \/ ClickClearCache
    \/ \E d \in CacheTicks : Tick(d, MaxCacheTime)
    \/ ClearCacheButton
    \/ ResolveUniverse(CacheYahooSweeps, CacheIdxResponses)
    \/ ScanButton
    \/ AutoRefresh

SpecCache == SessionInit /\ [][CacheNext]_vars

\* ---- the claim on the caches
SourceCache(src) == IF src = "yahoo" THEN cache_yahoo ELSE cache_idx

\* the last answer of the source's endpoint
SourceNet(src) == IF src = "yahoo" THEN yahoo_net ELSE idx_net

\* a result for the source was cached less than an hour ago
CachedWithinTheHour(src) ==
    SourceCache(src).kind = "entry" /\ now < SourceCache(src).at + 3600

\* C9: a resolution issues a source's network sweep only when no result for it
\* was cached within the last hour since the last refresh; within the hour it
\* returns the cached result with no request; "Clear Cache" empties both
\* caches, and an entry appears only by a sweep, so that the first resolution
\* to consult the source after a refresh fetches it again.
C9_SweepOnlyWhenNotCached ==
    [][ /\ pc = "resolve" =>
            \A src \in {"yahoo", "idx"} :
                /\ src \in ran' <=> (src \in called' /\ ~CachedWithinTheHour(src))
                /\ (src \in called' /\ CachedWithinTheHour(src)) =>
                      /\ SourceCache(src)' = SourceCache(src)
                      /\ SourceNet(src)' = SourceNet(src)
        /\ (pc = "resolve" /\ source_mode = MODE_YAHOO /\ CachedWithinTheHour("yahoo")
               /\ Len(cache_yahoo.value.syms) > 0) => SYMBOLS' = cache_yahoo.value.syms
        /\ (pc = "clear" /\ clear_clicked) => (cache_yahoo' = NoEntry /\ cache_idx' = NoEntry)
        /\ \A src \in {"yahoo", "idx"} :
              (SourceCache(src)' # SourceCache(src) /\ SourceCache(src)'.kind = "entry")
                  => (pc = "resolve" /\ src \in ran')
      ]_vars

\* a resolution served from the Yahoo cache forty minutes or more after the fetch
C9_Witness ==
    /\ pc = "scan_button"
    /\ "yahoo" \in called /\ "yahoo" \notin ran
    /\ cache_yahoo.kind = "entry"
    /\ now >= cache_yahoo.at + 2400
    /\ SYMBOLS = cache_yahoo.value.syms

(***************************************************************************)
(* The script with the scan and the auto refresh: the live sources down    *)
(* or returning two tickers, time passing in steps of 100 seconds          *)
(***************************************************************************)
MaxAutoTime == 700

AutoTicks == {100}

AutoYahooSweeps == {SameForAll(NetErr), SameForAll(Quotes(<<QuoteLower, QuoteBBCA>>))}

AutoIdxResponses == {NetErr}

\* the provider: BBCA passes, BBRI raises, nothing else is known; or all unknown
AutoMarkets ==
    {EmptyDict,
     [t \in {BBCA_JK, STATIC_FALLBACK[2]} |-> IF t = BBCA_JK THEN GotCases[3] ELSE GotCases[1]]}

AutoInit ==
    /\ ScreenIdle /\ ScanIdle
    /\ crit = DefaultCriteria
    /\ pc = "clear" /\ rerun = FALSE /\ now = 0
    /\ source_mode = MODE_AUTO /\ manual_text = <<>> /\ manual_file = NoFile
    /\ clear_clicked = FALSE /\ scan_clicked = FALSE /\ auto_refresh = FALSE
    /\ yahoo_net = NotAsked /\ idx_net = NotAsked
    /\ cache_yahoo = NoEntry /\ cache_idx = NoEntry
    /\ called = {} /\ ran = {}
    /\ SYMBOLS = <<>> /\ NAME_MAP = <<>> /\ DEBUG_MSGS = <<>> /\ script_error = FALSE
    /\ session = NoSession
    /\ market \in AutoMarkets

inScan == <<screenVars, crit, runVars, uiVars, netVars, cacheVars, universeVars, session, market>>

AutoNext ==
    \/ ClickScan
    \/ ToggleAutoRefresh
    \/ \E d \in AutoTicks : Tick(d, MaxAutoTime)
    \/ ClearCacheButton
    \/ ResolveUniverse(AutoYahooSweeps, AutoIdxResponses)
    \/ ScanButton
    \/ pc = "scanning" /\ ScanCall /\ UNCHANGED <<inScan, now>>
    \/ pc = "scanning" /\ ScanStep /\ UNCHANGED inScan
    \/ pc = "scanning" /\ ScanReturn /\ UNCHANGED <<inScan, now>>
    \/ StoreResults
    \/ AutoRefresh

SpecAuto == AutoInit /\ [][AutoNext]_vars

\* C10: with the auto refresh on and a scan made, once 300 seconds have passed
\* since the last scan the scan is run again without the button: the run that
\* st.rerun() starts scans, which sets the last-scan time anew, and the script
\* then rests until the next period.
C10_AutoRefreshRescans ==
    (pc = "auto_check" /\ rerun) => now - session.last_scan < AUTO_REFRESH_SECONDS

(***************************************************************************)
(* The ticker from the universe to the chart request                       *)
(***************************************************************************)
\* line 288: code = ticker.replace(".JK", "")
RowCode(ticker) == Replace(ticker, DOT_JK, <<>>)

\* line 440: tkr = f"{code}.JK"
ChartTicker(code) == code \o DOT_JK

\* C11: every ticker resolve_universe returns, in every mode and for every
\* payload of the live sources, ends with ".JK" and has a name-map entry, and
\* the ticker the chart request builds from the row's code is the ticker itself.
C11_ResolvedTickersSuffixed ==
    Resolved =>
        \A i \in 1..Len(SYMBOLS) :
            /\ EndsWith(SYMBOLS[i], DOT_JK)
            /\ SYMBOLS[i] \in DOMAIN NAME_MAP
            /\ ChartTicker(RowCode(SYMBOLS[i])) = SYMBOLS[i]
====
